---- MODULE Spec2Model ----
(***************************************************************************)
(* Model of the concurrent probing engine of ClaudeCodeSpeedTest.py:       *)
(* ConcurrentRouteTest.run_tests_async / run_tests_sync (the Scheduler),   *)
(* test_route_async / test_route_sync (the RouteRunner),                   *)
(* test_single_request_async / test_single_request_sync (the Prober),      *)
(* and the aggregation of the probes' TestResults into the per-route       *)
(* result dictionaries and into self.results.                              *)
(***************************************************************************)
EXTENDS Integers, Sequences, FiniteSets, TLC

(***************************************************************************)
(* Bounds of the model: the values load_config reads from config.ini.      *)
(***************************************************************************)
NumRoutes == 3
TestCount == 2
MaxConcurrentRoutes == 2
MaxConcurrentPerRoute == 1

Routes == 1..NumRoutes
\* the range with an off-by-one end
ProbeIdsShort == 1..(TestCount - 1)
\* range(self.test_count): the probe tasks of one route, in submission order
ProbeIds == 1..TestCount
\* a pool that starts one thread more than max_workers
WorkersOneMore == 1..(MaxConcurrentPerRoute + 1)
\* the worker threads a per-route ThreadPoolExecutor may start
Workers == 1..MaxConcurrentPerRoute

(***************************************************************************)
(* Execution contexts.  The cooperative strategy runs everything on the    *)
(* event-loop thread; the thread-based strategy has the main thread, one   *)
(* route-pool thread per running test_route_sync and the per-route worker  *)
(* threads.                                                                *)
(***************************************************************************)
LoopCtx == <<"loop", 0>>
MainCtx == <<"main", 0>>
RunnerCtx(r) == <<"runner", r>>

\* threading.get_ident() of the event-loop thread
LoopThread == 0
\* threading.get_ident() of worker w of route r's pool
WorkerThread(r, w) == r * (MaxConcurrentPerRoute + 1) + w

(***************************************************************************)
(* What the probed server (or the transport) does with one request.        *)
(* exc: the exception the HTTP client raises, if any; status: the response *)
(* status; chunks: the body, as the sizes of the chunks in arrival order   *)
(* with the time (ms since the request started) each arrived at; finish:   *)
(* the time the body ended.  With status 0 the exception is raised by the  *)
(* request itself and there is no response; with a status it is raised by  *)
(* the body, behind the last chunk, when the prober reads that far.        *)
(***************************************************************************)
Resp(exc, status, chunks, finish) ==
    [exc |-> exc, status |-> status, chunks |-> chunks, finish |-> finish]
Chunk(size, at) == [size |-> size, at |-> at]

OkFast     == Resp("none", 200, <<Chunk(0, 1), Chunk(4, 2), Chunk(4, 3)>>, 4)
OkSlow     == Resp("none", 200, <<Chunk(8, 5)>>, 9)
Http500    == Resp("none", 500, <<Chunk(3, 1)>>, 1)
EmptyBody  == Resp("none", 200, <<Chunk(0, 1)>>, 2)
TimedOut   == Resp("timeout", 200, <<>>, 0)
ConnFailed == Resp("connection", 200, <<>>, 0)
OtherExc   == Resp("other", 200, <<>>, 0)

\* the answers each route's server may give: every failure class occurs, route 1
\* has two different latencies and the last route never succeeds
RouteResponses(r) ==
    CASE r = 1 -> {OkFast, OkSlow, Http500}
      [] r = 2 -> {OkFast, ConnFailed, EmptyBody}
      [] OTHER -> {TimedOut, OtherExc}

(***************************************************************************)
(* TestResult (the dataclass) and the value of a probe task that has not   *)
(* finished.  kind = "Exception" is a task that raised instead of          *)
(* returning a TestResult.                                                 *)
(***************************************************************************)
TestResult(success, total_time, first_byte_time, error, thread_id) ==
    [kind |-> "TestResult", success |-> success, total_time |-> total_time,
     first_byte_time |-> first_byte_time, error |-> error, thread_id |-> thread_id]
NoFuture ==
    [kind |-> "None", success |-> FALSE, total_time |-> 0,
     first_byte_time |-> 0, error |-> "", thread_id |-> LoopThread]

HttpError(status) ==
    CASE status = 500 -> "HTTP 500"
      [] status = 404 -> "HTTP 404"
      [] OTHER -> "HTTP other"

\* index of the first chunk, empty or not
FirstByteAnyChunk(chunks, k) == IF k > Len(chunks) THEN 0 ELSE k

\* index of the first non-empty chunk, 0 when the body ends without one
RECURSIVE FirstByteFrom(_, _)
FirstByteFrom(chunks, k) ==
    IF k > Len(chunks) THEN 0
    ELSE IF chunks[k].size > 0 THEN k
    ELSE FirstByteFrom(chunks, k + 1)

\* every response passes for a good one
StatusAny(resp) == resp.status # 0
\* response.status != 200 is false
StatusOk(resp) == resp.status = 200

\* the chunks the prober takes from the body: none behind a bad status,
\* else up to the first non-empty one and then, if there was one, the rest
BodyRead(resp) ==
    IF resp.status = 0 \/ ~StatusOk(resp) THEN 0
    ELSE LET k == FirstByteFrom(resp.chunks, 1) IN
         IF k = 0 THEN Len(resp.chunks) ELSE k + (Len(resp.chunks) - k)

test_single_request_async(resp, thread_id) ==
    IF resp.status # 0 /\ ~StatusOk(resp)
        THEN TestResult(FALSE, 0, 0, HttpError(resp.status), thread_id)
    ELSE IF resp.exc = "timeout" THEN TestResult(FALSE, 0, 0, "Timeout", thread_id)
    ELSE IF resp.exc = "connection"
        THEN TestResult(FALSE, 0, 0, "Client Error: connection", thread_id)
    ELSE IF resp.exc = "other" THEN TestResult(FALSE, 0, 0, "other", thread_id)
    ELSE LET k == FirstByteFrom(resp.chunks, 1) IN
         IF k = 0 THEN TestResult(FALSE, 0, 0, "No response data", thread_id)
         ELSE TestResult(TRUE, resp.finish, resp.chunks[k].at, "", thread_id)

test_single_request_sync(resp, thread_id) ==
    IF resp.status # 0 /\ ~StatusOk(resp)
        THEN TestResult(FALSE, 0, 0, HttpError(resp.status), thread_id)
    ELSE IF resp.exc = "timeout" THEN TestResult(FALSE, 0, 0, "Timeout", thread_id)
    ELSE IF resp.exc = "connection"
        THEN TestResult(FALSE, 0, 0, "Connection Error", thread_id)
    ELSE IF resp.exc = "other" THEN TestResult(FALSE, 0, 0, "other", thread_id)
    ELSE LET k == FirstByteFrom(resp.chunks, 1) IN
         IF k = 0 THEN TestResult(FALSE, 0, 0, "No response data", thread_id)
         ELSE TestResult(TRUE, resp.finish, resp.chunks[k].at, "", thread_id)

(***************************************************************************)
(* The per-route result dictionary and the loop body that folds one task   *)
(* result into it.                                                         *)
(***************************************************************************)
NewResult(r) ==
    [route_name |-> r, success_count |-> 0, fail_count |-> 0,
     total_times |-> <<>>, first_byte_times |-> <<>>, errors |-> <<>>,
     concurrent_threads |-> {}]

\* the loop body with the failure branch losing its count
RecordDropsFail(res, tr) ==
    IF tr.kind = "TestResult" /\ tr.success THEN
        [res EXCEPT !.concurrent_threads = @ \cup {tr.thread_id},
                    !.success_count = @ + 1,
                    !.total_times = Append(@, tr.total_time),
                    !.first_byte_times = Append(@, tr.first_byte_time)]
    ELSE
        [res EXCEPT !.errors = Append(@, tr.error)]

\* the loop body with the failure branch losing the error message
RecordSkipsError(res, tr) ==
    IF tr.kind = "TestResult" /\ tr.success THEN
        [res EXCEPT !.concurrent_threads = @ \cup {tr.thread_id},
                    !.success_count = @ + 1,
                    !.total_times = Append(@, tr.total_time),
                    !.first_byte_times = Append(@, tr.first_byte_time)]
    ELSE
        [res EXCEPT !.fail_count = @ + 1]

\* the loop body with the success branch forgetting the first-byte time
RecordNoFirstByte(res, tr) ==
    IF tr.kind = "TestResult" THEN
        IF tr.success THEN
            [res EXCEPT !.concurrent_threads = @ \cup {tr.thread_id},
                        !.success_count = @ + 1,
                        !.total_times = Append(@, tr.total_time)]
        ELSE
            [res EXCEPT !.concurrent_threads = @ \cup {tr.thread_id},
                        !.fail_count = @ + 1,
                        !.errors = Append(@, tr.error)]
    ELSE
        [res EXCEPT !.fail_count = @ + 1,
                    !.errors = Append(@, tr.error)]

Record(res, tr) ==
    IF tr.kind = "TestResult" THEN
        IF tr.success THEN
            [res EXCEPT !.concurrent_threads = @ \cup {tr.thread_id},
                        !.success_count = @ + 1,
                        !.total_times = Append(@, tr.total_time),
                        !.first_byte_times = Append(@, tr.first_byte_time)]
        ELSE
            [res EXCEPT !.concurrent_threads = @ \cup {tr.thread_id},
                        !.fail_count = @ + 1,
                        !.errors = Append(@, tr.error)]
    ELSE
        [res EXCEPT !.fail_count = @ + 1,
                    !.errors = Append(@, tr.error)]


(***************************************************************************)
(* calculate_stats.  Times are whole milliseconds; a mean or a median that *)
(* is no whole number is kept exact, as the fraction <<numerator,          *)
(* denominator>> in lowest terms (statistics.mean and statistics.median    *)
(* compute exactly from their inputs).                                     *)
(***************************************************************************)
RECURSIVE GCD(_, _)
GCD(a, b) == IF b = 0 THEN a ELSE GCD(b, a % b)
Frac(n, d) == LET g == GCD(n, d) IN IF g = 0 THEN <<0, 1>> ELSE <<n \div g, d \div g>>

RECURSIVE Sum(_)
Sum(times) == IF times = <<>> THEN 0 ELSE Head(times) + Sum(Tail(times))
RECURSIVE Min(_)
Min(times) ==
    IF Len(times) = 1 THEN Head(times)
    ELSE LET m == Min(Tail(times)) IN IF Head(times) < m THEN Head(times) ELSE m
RECURSIVE Max(_)
Max(times) ==
    IF Len(times) = 1 THEN Head(times)
    ELSE LET m == Max(Tail(times)) IN IF Head(times) > m THEN Head(times) ELSE m
\* sorted(times)
Sorted(times) == SortSeq(times, LAMBDA a, b : a < b)
\* the median taken as the upper of the two middle elements
MedianUpper(times) ==
    LET s == Sorted(times)
        n == Len(times)
    IN  Frac(s[n \div 2 + 1], 1)

\* statistics.median: the middle element, or the mean of the two middle ones
Median(times) ==
    LET s == Sorted(times)
        n == Len(times)
    IN  IF n % 2 = 1 THEN Frac(s[(n + 1) \div 2], 1)
        ELSE Frac(s[n \div 2] + s[n \div 2 + 1], 2)

\* the statistics with the first element taken for the minimum
calculate_stats_first_as_min(times) ==
    IF times = <<>> THEN [avg |-> Frac(0, 1), min |-> 0, max |-> 0, median |-> Frac(0, 1)]
    ELSE [avg |-> Frac(Sum(times), Len(times)), min |-> Head(times),
          max |-> Max(times), median |-> Median(times)]

calculate_stats(times) ==
    IF times = <<>> THEN [avg |-> Frac(0, 1), min |-> 0, max |-> 0, median |-> Frac(0, 1)]
    ELSE [avg |-> Frac(Sum(times), Len(times)), min |-> Min(times),
          max |-> Max(times), median |-> Median(times)]

(***************************************************************************)
(* generate_report: the display order and the recommended route.  Rates    *)
(* and scores are kept exact, as fractions <<numerator, denominator>> with *)
(* a positive denominator; times are milliseconds, the code's seconds are  *)
(* a thousandth of them.                                                   *)
(***************************************************************************)
\* best_route = None
NoRoute == 0
NoReport == [status |-> "none", order |-> <<>>, best |-> NoRoute]

FracLess(a, b) == a[1] * b[2] < b[1] * a[2]

\* a key that looks at the latency only
SortKeyLatencyOnly(res) ==
    <<0,
      IF res.first_byte_times # <<>>
      THEN LET avg == calculate_stats(res.first_byte_times).avg
           IN  <<0 - avg[1], 1000 * avg[2]>>
      ELSE <<999, 1>>>>

\* the key of sorted(): (success_count, -mean first byte, or 999 without one)
SortKey(res) ==
    <<res.success_count,
      IF res.first_byte_times # <<>>
      THEN LET avg == calculate_stats(res.first_byte_times).avg
           IN  <<0 - avg[1], 1000 * avg[2]>>
      ELSE <<999, 1>>>>

\* tuple comparison of two keys
KeyLess(a, b) == a[1] < b[1] \/ (a[1] = b[1] /\ FracLess(a[2], b[2]))

\* sorted(..., reverse=True) is stable: an element goes behind the elements
\* whose key is not smaller than its own
RECURSIVE InsertDesc(_, _)
InsertDesc(sorted, x) ==
    IF sorted = <<>> THEN <<x>>
    ELSE IF KeyLess(SortKey(Head(sorted)), SortKey(x)) THEN <<x>> \o sorted
    ELSE <<Head(sorted)>> \o InsertDesc(Tail(sorted), x)

RECURSIVE SortedResults(_)
SortedResults(rs) ==
    IF rs = <<>> THEN <<>>
    ELSE InsertDesc(SortedResults(SubSeq(rs, 1, Len(rs) - 1)), rs[Len(rs)])

\* every route is scored
ScoredAlways(res) == res.success_count >= 0
\* if result['success_count'] > 0
Scored(res) == res.success_count > 0

\* success_ratio * 0.7 + (1 / (avg_first_byte + 0.1)) * 0.3
Score(res) ==
    LET avg == IF res.first_byte_times # <<>>
               THEN calculate_stats(res.first_byte_times).avg
               ELSE <<999 * 1000, 1>>
        n == avg[1]
        d == avg[2]
    IN  <<7 * res.success_count * (n + 100 * d) + 3000 * d * TestCount,
          10 * TestCount * (n + 100 * d)>>

\* a later route with the same score wins
BeatsOrTies(score, best_score) == ~FracLess(score, best_score)
\* if score > best_score
Beats(score, best_score) == FracLess(best_score, score)

\* the loop over sorted_results that keeps best_route and best_score
RECURSIVE BestFrom(_, _, _, _)
BestFrom(sorted, k, best_route, best_score) ==
    IF k > Len(sorted) THEN best_route
    ELSE IF Scored(sorted[k]) /\ Beats(Score(sorted[k]), best_score)
         THEN BestFrom(sorted, k + 1, sorted[k].route_name, Score(sorted[k]))
         ELSE BestFrom(sorted, k + 1, best_route, best_score)

generate_report(rs) ==
    IF rs = <<>> THEN [status |-> "empty", order |-> <<>>, best |-> NoRoute]
    ELSE LET sorted == SortedResults(rs)
         IN  [status |-> "table", order |-> sorted,
              best |-> BestFrom(sorted, 1, NoRoute, <<0 - 1, 1>>)]

\* a call of the prober / of calculate_stats that has not been made
NoProbe == [phase |-> "idle", resp |-> OkFast, out |-> NoFuture, read |-> 0]
NoStats == [phase |-> "idle", times |-> <<>>, out |-> calculate_stats(<<>>)]

(***************************************************************************)
(* State.                                                                  *)
(*   use_async  self.use_async, read once by run()                         *)
(*   pc         position of run(): "running" inside run_tests_*,           *)
(*              "finished" after it returned, "reported" after             *)
(*              generate_report, "crashed" when an exception left run()    *)
(*   rstate     per route: "queued" at the cross-route gate, "active"      *)
(*              while its runner runs, "returned" / "faulted" when the     *)
(*              runner returned / raised, "appending" / "appended" while   *)
(*              and after the Scheduler appends its result, "excepted"     *)
(*              after run_tests_sync printed the runner's exception,       *)
(*              "cancelled" when asyncio.run cancelled it                  *)
(*   pstate     per probe task: "new", "waiting" (at the per-route gate or *)
(*              in the pool's queue), "request", "sleep" (the delay after  *)
(*              the request), "done", "recording", "recorded", "cancelled" *)
(*   future     per probe task: the value it returned                      *)
(*   tid        per probe task: the thread that runs it                    *)
(*   result     per route: the runner's results dictionary                 *)
(*   results    self.results                                               *)
(*   issued     per route: requests issued so far (the fake prober's       *)
(*              counter)                                                   *)
(*   progress   per route: completed count of the rich progress task       *)
(*   writers    per RouteResult (index r) and for self.results (index 0):  *)
(*              the contexts that are in the middle of updating it         *)
(*   report     what generate_report produced: the display order and the   *)
(*              recommended route                                          *)
(*   probe      one call of test_single_request_*: the response it met,    *)
(*              the TestResult it returned, the chunks it read             *)
(*   stats      one call of calculate_stats: its argument and its value    *)
(***************************************************************************)
VARIABLES use_async, pc, rstate, pstate, future, tid, result, results,
          issued, progress, writers, report, probe, stats

vars == <<use_async, pc, rstate, pstate, future, tid, result, results,
          issued, progress, writers, report, probe, stats>>

ResultsList == 0

Init ==
    /\ use_async \in BOOLEAN
    /\ pc = "running"
    /\ rstate = [r \in Routes |-> "queued"]
    /\ pstate = [r \in Routes |-> [i \in ProbeIds |-> "new"]]
    /\ future = [r \in Routes |-> [i \in ProbeIds |-> NoFuture]]
    /\ tid = [r \in Routes |-> [i \in ProbeIds |-> LoopThread]]
    /\ result = [r \in Routes |-> NewResult(r)]
    /\ results = <<>>
    /\ issued = [r \in Routes |-> 0]
    /\ progress = [r \in Routes |-> 0]
    /\ writers = [t \in {ResultsList} \cup Routes |-> {}]
    /\ report = NoReport
    /\ probe = NoProbe
    /\ stats = NoStats

(***************************************************************************)
(* The two admission gates.                                                *)
(***************************************************************************)
ActiveRoutes == {r \in Routes : rstate[r] = "active"}
InFlight(r) == {i \in ProbeIds : pstate[r][i] \in {"request", "sleep"}}

\* gates that admit everyone
RouteGateStuckOpen == TRUE
PerRouteGateStuckOpen(r) == r \in Routes

\* a cross-route gate that lets one route too many in
RouteGateOffByOne == Cardinality(ActiveRoutes) <= MaxConcurrentRoutes

\* a probe that advances nothing
AdvanceNone(p, r) == p
\* progress.advance(task_id)
Advance(p, r) == [p EXCEPT ![r] = @ + 1]

\* asyncio.Semaphore(max_concurrent_routes) / ThreadPoolExecutor(max_workers=...)
RouteGateOpen == Cardinality(ActiveRoutes) < MaxConcurrentRoutes
\* a gate whose slot is free again as soon as the request has returned
PerRouteGateIgnoresSleep(r) ==
    Cardinality({i \in ProbeIds : pstate[r][i] = "request"}) < MaxConcurrentPerRoute

\* a per-route gate one permit short
PerRouteGateOneShort(r) == Cardinality(InFlight(r)) < MaxConcurrentPerRoute - 1

\* asyncio.Semaphore(max_concurrent_per_route) / the per-route pool
PerRouteGateOpen(r) == Cardinality(InFlight(r)) < MaxConcurrentPerRoute

\* both gates and both pool queues serve their waiters first come, first served
RouteIsNext(r) == \A q \in Routes : q < r => rstate[q] # "queued"
ProbeIsNext(r, i) == \A j \in ProbeIds : j < i => pstate[r][j] # "waiting"

WorkerIdle(r, w) ==
    \A i \in ProbeIds :
        pstate[r][i] \in {"request", "sleep"} => tid[r][i] # WorkerThread(r, w)

Busy(ctx) == \E t \in DOMAIN writers : ctx \in writers[t]
\* the pools' threads work while the main thread is in run_tests_sync or, after
\* a KeyboardInterrupt there, in the pool's shutdown(wait=True)
PoolRunning == pc \in {"running", "interrupting"}
\* the event loop runs one callback at a time
LoopFree == ~Busy(LoopCtx)

\* gather(*tasks) of a route has every result / as_completed is exhausted
\* a fold that starts with the first finished task
GatheredSome(r) == \E j \in ProbeIds : pstate[r][j] \in {"done", "recorded"}
\* gather(*tasks, return_exceptions=True) of test_route_async returned
Gathered(r) == \A j \in ProbeIds : pstate[r][j] \in {"done", "recorded"}
AllSettled(r) == \A i \in ProbeIds : pstate[r][i] = "recorded"
\* gather(*route_tasks) returned
AllReturned == \A r \in Routes : rstate[r] \in {"returned", "appending", "appended"}
\* the loop over the routes' futures ending at the first one
SomeConsumed == \E r \in Routes : rstate[r] \in {"appended", "excepted"}
\* as_completed(futures) of run_tests_sync is exhausted
AllConsumed == \A r \in Routes : rstate[r] \in {"appended", "excepted"}

\* the context that updates route r's result dictionary in test_route_sync
SyncRecorder(r, i) == RunnerCtx(r)
\* the append done by the route's own pool thread
SyncAppenderIsRunner(r) == RunnerCtx(r)
\* the context that appends route r's result to self.results in run_tests_sync
SyncAppender(r) == MainCtx

(***************************************************************************)
(* Cooperative strategy: run_tests_async, test_route_async.                *)
(***************************************************************************)
\* test_with_semaphore acquires the gate and test_route_async creates its tasks
StartRouteAsync(r) ==
    /\ use_async /\ pc = "running" /\ LoopFree
    /\ rstate[r] = "queued" /\ RouteIsNext(r) /\ RouteGateOpen
    /\ rstate' = [rstate EXCEPT ![r] = "active"]
    /\ pstate' = [pstate EXCEPT ![r] = [i \in ProbeIds |-> "waiting"]]
    /\ UNCHANGED <<report, probe, stats>>
    /\ UNCHANGED <<use_async, pc, future, tid, result, results, issued,
                   progress, writers>>

\* test_route_async raises before it issues a probe (connector, session)
RunnerFaultAsync(r) ==
    /\ use_async /\ pc = "running" /\ LoopFree
    /\ rstate[r] = "queued" /\ RouteIsNext(r) /\ RouteGateOpen
    /\ rstate' = [rstate EXCEPT ![r] = "faulted"]
    /\ UNCHANGED <<report, probe, stats>>
    /\ UNCHANGED <<use_async, pc, pstate, future, tid, result, results,
                   issued, progress, writers>>

\* limited_test enters "async with semaphore" and posts the request
BeginProbeAsync(r, i) ==
    /\ use_async /\ pc = "running" /\ LoopFree
    /\ rstate[r] = "active"
    /\ pstate[r][i] = "waiting" /\ ProbeIsNext(r, i) /\ PerRouteGateOpen(r)
    /\ pstate' = [pstate EXCEPT ![r][i] = "request"]
    /\ tid' = [tid EXCEPT ![r][i] = LoopThread]
    /\ issued' = [issued EXCEPT ![r] = @ + 1]
    /\ UNCHANGED <<report, probe, stats>>
    /\ UNCHANGED <<use_async, pc, rstate, future, result, results, progress,
                   writers>>

\* test_single_request_async returns; progress.advance; the delay starts
ResponseAsync(r, i) ==
    /\ use_async /\ pc = "running" /\ LoopFree
    /\ pstate[r][i] = "request"
    /\ \E resp \in RouteResponses(r) :
         future' = [future EXCEPT ![r][i] =
                       test_single_request_async(resp, tid[r][i])]
    /\ progress' = Advance(progress, r)
    /\ pstate' = [pstate EXCEPT ![r][i] = "sleep"]
    /\ UNCHANGED <<report, probe, stats>>
    /\ UNCHANGED <<use_async, pc, rstate, tid, result, results, issued,
                   writers>>

\* asyncio.sleep(self.delay) ends; the semaphore is released; the task returns
WakeAsync(r, i) ==
    /\ use_async /\ pc = "running" /\ LoopFree
    /\ pstate[r][i] = "sleep"
    /\ pstate' = [pstate EXCEPT ![r][i] = "done"]
    /\ UNCHANGED <<report, probe, stats>>
    /\ UNCHANGED <<use_async, pc, rstate, future, tid, result, results,
                   issued, progress, writers>>

\* gather returned every task's result; the loop over test_results reaches
\* the next one, in task order
BeginRecordAsync(r, i) ==
    /\ use_async /\ pc = "running" /\ LoopFree
    /\ rstate[r] = "active"
    /\ Gathered(r)
    /\ pstate[r][i] = "done"
    /\ \A j \in ProbeIds : j < i => pstate[r][j] = "recorded"
    /\ pstate' = [pstate EXCEPT ![r][i] = "recording"]
    /\ writers' = [writers EXCEPT ![r] = @ \cup {LoopCtx}]
    /\ UNCHANGED <<report, probe, stats>>
    /\ UNCHANGED <<use_async, pc, rstate, future, tid, result, results,
                   issued, progress>>

EndRecordAsync(r, i) ==
    /\ use_async /\ pc = "running"
    /\ pstate[r][i] = "recording"
    /\ result' = [result EXCEPT ![r] = Record(@, future[r][i])]
    /\ pstate' = [pstate EXCEPT ![r][i] = "recorded"]
    /\ writers' = [writers EXCEPT ![r] = @ \ {LoopCtx}]
    /\ UNCHANGED <<report, probe, stats>>
    /\ UNCHANGED <<use_async, pc, rstate, future, tid, results, issued,
                   progress>>

\* test_route_async returns its results; test_with_semaphore releases the gate
ReturnRouteAsync(r) ==
    /\ use_async /\ pc = "running" /\ LoopFree
    /\ rstate[r] = "active" /\ AllSettled(r)
    /\ rstate' = [rstate EXCEPT ![r] = "returned"]
    /\ UNCHANGED <<report, probe, stats>>
    /\ UNCHANGED <<use_async, pc, pstate, future, tid, result, results,
                   issued, progress, writers>>

\* gather(*route_tasks) returned; the loop over route_results, in route order
BeginAppendAsync(r) ==
    /\ use_async /\ pc = "running" /\ LoopFree
    /\ AllReturned
    /\ rstate[r] = "returned"
    /\ \A q \in Routes : q < r => rstate[q] = "appended"
    /\ rstate' = [rstate EXCEPT ![r] = "appending"]
    /\ writers' = [writers EXCEPT ![ResultsList] = @ \cup {LoopCtx}]
    /\ UNCHANGED <<report, probe, stats>>
    /\ UNCHANGED <<use_async, pc, pstate, future, tid, result, results,
                   issued, progress>>

EndAppendAsync(r) ==
    /\ use_async /\ pc = "running"
    /\ rstate[r] = "appending"
    /\ results' = Append(results, result[r])
    /\ rstate' = [rstate EXCEPT ![r] = "appended"]
    /\ writers' = [writers EXCEPT ![ResultsList] = @ \ {LoopCtx}]
    /\ UNCHANGED <<report, probe, stats>>
    /\ UNCHANGED <<use_async, pc, pstate, future, tid, result, issued,
                   progress>>

\* run_tests_async returns
FinishAsync ==
    /\ use_async /\ pc = "running" /\ LoopFree
    /\ \A r \in Routes : rstate[r] = "appended"
    /\ pc' = "finished"
    /\ UNCHANGED <<report, probe, stats>>
    /\ UNCHANGED <<use_async, rstate, pstate, future, tid, result, results,
                   issued, progress, writers>>

\* a runner's exception leaves gather and run_tests_async; asyncio.run cancels
\* the tasks that are left and the exception reaches main()
FailRunAsync ==
    /\ use_async /\ pc = "running" /\ LoopFree
    /\ \E r \in Routes : rstate[r] = "faulted"
    /\ pc' = "crashed"
    /\ rstate' = [r \in Routes |->
                    IF rstate[r] \in {"queued", "active"} THEN "cancelled"
                    ELSE rstate[r]]
    /\ pstate' = [r \in Routes |-> [i \in ProbeIds |->
                    IF rstate[r] = "active"
                       /\ pstate[r][i] \in {"waiting", "request", "sleep"}
                    THEN "cancelled" ELSE pstate[r][i]]]
    /\ UNCHANGED <<report, probe, stats>>
    /\ UNCHANGED <<use_async, future, tid, result, results, issued,
                   progress, writers>>


(***************************************************************************)
(* Thread-based strategy: run_tests_sync, test_route_sync.                 *)
(***************************************************************************)
\* a route-pool thread takes the route's task and test_route_sync submits
\* its probes to a new per-route pool
StartRouteSync(r) ==
    /\ ~use_async /\ PoolRunning
    /\ rstate[r] = "queued" /\ RouteIsNext(r) /\ RouteGateOpen
    /\ rstate' = [rstate EXCEPT ![r] = "active"]
    /\ pstate' = [pstate EXCEPT ![r] = [i \in ProbeIds |-> "waiting"]]
    /\ UNCHANGED <<report, probe, stats>>
    /\ UNCHANGED <<use_async, pc, future, tid, result, results, issued,
                   progress, writers>>

\* test_route_sync raises before it issues a probe (pool creation, submit)
RunnerFaultSync(r) ==
    /\ ~use_async /\ PoolRunning
    /\ rstate[r] = "queued" /\ RouteIsNext(r) /\ RouteGateOpen
    /\ rstate' = [rstate EXCEPT ![r] = "faulted"]
    /\ UNCHANGED <<report, probe, stats>>
    /\ UNCHANGED <<use_async, pc, pstate, future, tid, result, results,
                   issued, progress, writers>>

\* worker w of the route's pool takes the next single_test and posts the request
BeginProbeSync(r, i, w) ==
    /\ ~use_async /\ PoolRunning
    /\ rstate[r] = "active"
    /\ pstate[r][i] = "waiting" /\ ProbeIsNext(r, i) /\ PerRouteGateOpen(r)
    /\ WorkerIdle(r, w)
    /\ pstate' = [pstate EXCEPT ![r][i] = "request"]
    /\ tid' = [tid EXCEPT ![r][i] = WorkerThread(r, w)]
    /\ issued' = [issued EXCEPT ![r] = @ + 1]
    /\ UNCHANGED <<report, probe, stats>>
    /\ UNCHANGED <<use_async, pc, rstate, future, result, results, progress,
                   writers>>

\* test_single_request_sync returns; the delay starts
ResponseSync(r, i) ==
    /\ ~use_async /\ PoolRunning
    /\ pstate[r][i] = "request"
    /\ \E resp \in RouteResponses(r) :
         future' = [future EXCEPT ![r][i] =
                       test_single_request_sync(resp, tid[r][i])]
    /\ pstate' = [pstate EXCEPT ![r][i] = "sleep"]
    /\ UNCHANGED <<report, probe, stats>>
    /\ UNCHANGED <<use_async, pc, rstate, tid, result, results, issued,
                   progress, writers>>

\* time.sleep(self.delay) ends; progress.advance; single_test returns and the
\* worker is free
WakeSync(r, i) ==
    /\ ~use_async /\ PoolRunning
    /\ pstate[r][i] = "sleep"
    /\ progress' = Advance(progress, r)
    /\ pstate' = [pstate EXCEPT ![r][i] = "done"]
    /\ UNCHANGED <<report, probe, stats>>
    /\ UNCHANGED <<use_async, pc, rstate, future, tid, result, results,
                   issued, writers>>

\* as_completed(futures) yields a finished future to the runner's loop
BeginRecordSync(r, i) ==
    /\ ~use_async /\ PoolRunning
    /\ rstate[r] = "active"
    /\ pstate[r][i] = "done"
    /\ ~Busy(SyncRecorder(r, i))
    /\ pstate' = [pstate EXCEPT ![r][i] = "recording"]
    /\ writers' = [writers EXCEPT ![r] = @ \cup {SyncRecorder(r, i)}]
    /\ UNCHANGED <<report, probe, stats>>
    /\ UNCHANGED <<use_async, pc, rstate, future, tid, result, results,
                   issued, progress>>

EndRecordSync(r, i) ==
    /\ ~use_async /\ PoolRunning
    /\ pstate[r][i] = "recording"
    /\ result' = [result EXCEPT ![r] = Record(@, future[r][i])]
    /\ pstate' = [pstate EXCEPT ![r][i] = "recorded"]
    /\ writers' = [writers EXCEPT ![r] = @ \ {SyncRecorder(r, i)}]
    /\ UNCHANGED <<report, probe, stats>>
    /\ UNCHANGED <<use_async, pc, rstate, future, tid, results, issued,
                   progress>>

\* the per-route pool shuts down and test_route_sync returns its results
ReturnRouteSync(r) ==
    /\ ~use_async /\ PoolRunning
    /\ rstate[r] = "active" /\ AllSettled(r)
    /\ rstate' = [rstate EXCEPT ![r] = "returned"]
    /\ UNCHANGED <<report, probe, stats>>
    /\ UNCHANGED <<use_async, pc, pstate, future, tid, result, results,
                   issued, progress, writers>>

\* as_completed(futures) yields a finished route; future.result() returns
BeginAppendSync(r) ==
    /\ ~use_async /\ pc = "running"
    /\ rstate[r] = "returned"
    /\ ~Busy(SyncAppender(r))
    /\ rstate' = [rstate EXCEPT ![r] = "appending"]
    /\ writers' = [writers EXCEPT ![ResultsList] = @ \cup {SyncAppender(r)}]
    /\ UNCHANGED <<report, probe, stats>>
    /\ UNCHANGED <<use_async, pc, pstate, future, tid, result, results,
                   issued, progress>>

EndAppendSync(r) ==
    /\ ~use_async /\ pc = "running"
    /\ rstate[r] = "appending"
    /\ results' = Append(results, result[r])
    /\ rstate' = [rstate EXCEPT ![r] = "appended"]
    /\ writers' = [writers EXCEPT ![ResultsList] = @ \ {SyncAppender(r)}]
    /\ UNCHANGED <<report, probe, stats>>
    /\ UNCHANGED <<use_async, pc, pstate, future, tid, result, issued,
                   progress>>

\* as_completed(futures) yields a finished route; future.result() raises and
\* the except branch prints the exception
ExceptRouteSync(r) ==
    /\ ~use_async /\ pc = "running"
    /\ rstate[r] = "faulted"
    /\ ~Busy(MainCtx)
    /\ rstate' = [rstate EXCEPT ![r] = "excepted"]
    /\ UNCHANGED <<report, probe, stats>>
    /\ UNCHANGED <<use_async, pc, pstate, future, tid, result, results,
                   issued, progress, writers>>

\* the route pool shuts down and run_tests_sync returns
FinishSync ==
    /\ ~use_async /\ pc = "running"
    /\ AllConsumed
    /\ pc' = "finished"
    /\ UNCHANGED <<report, probe, stats>>
    /\ UNCHANGED <<use_async, rstate, pstate, future, tid, result, results,
                   issued, progress, writers>>

(***************************************************************************)
(* run(): generate_report follows run_tests_*.                             *)
(***************************************************************************)
\* a run that reports although it was interrupted
ReportDueAlways == pc \in {"finished", "interrupted"}
\* run reaches self.generate_report(): run_tests_* returned
ReportDue == pc = "finished"

GenerateReport ==
    /\ ReportDue
    /\ pc' = "reported"
    /\ report' = generate_report(results)
    /\ UNCHANGED <<probe, stats>>
    /\ UNCHANGED <<use_async, rstate, pstate, future, tid, result, results,
                   issued, progress, writers>>

Next ==
    \/ \E r \in Routes : StartRouteAsync(r)
    \/ \E r \in Routes, i \in ProbeIds : BeginProbeAsync(r, i)
    \/ \E r \in Routes, i \in ProbeIds : ResponseAsync(r, i)
    \/ \E r \in Routes, i \in ProbeIds : WakeAsync(r, i)
    \/ \E r \in Routes, i \in ProbeIds : BeginRecordAsync(r, i)
    \/ \E r \in Routes, i \in ProbeIds : EndRecordAsync(r, i)
    \/ \E r \in Routes : ReturnRouteAsync(r)
    \/ \E r \in Routes : BeginAppendAsync(r)
    \/ \E r \in Routes : EndAppendAsync(r)
    \/ FinishAsync
    \/ \E r \in Routes : StartRouteSync(r)
    \/ \E r \in Routes, i \in ProbeIds, w \in Workers : BeginProbeSync(r, i, w)
    \/ \E r \in Routes, i \in ProbeIds : ResponseSync(r, i)
    \/ \E r \in Routes, i \in ProbeIds : WakeSync(r, i)
    \/ \E r \in Routes, i \in ProbeIds : BeginRecordSync(r, i)
    \/ \E r \in Routes, i \in ProbeIds : EndRecordSync(r, i)
    \/ \E r \in Routes : ReturnRouteSync(r)
    \/ \E r \in Routes : BeginAppendSync(r)
    \/ \E r \in Routes : EndAppendSync(r)
    \/ FinishSync
    \/ GenerateReport

Spec == Init /\ [][Next]_vars

(***************************************************************************)
(* The same program when a runner may raise (a structural fault of         *)
(* test_route_async / test_route_sync, not a failing probe).               *)
(***************************************************************************)
NextFault ==
    \/ Next
    \/ \E r \in Routes : RunnerFaultAsync(r)
    \/ FailRunAsync
    \/ \E r \in Routes : RunnerFaultSync(r)
    \/ \E r \in Routes : ExceptRouteSync(r)


\* the run under fair scheduling: the event loop runs its ready callbacks, the
\* threads run, and every request returns (each has its timeout)
SpecFair == Spec /\ WF_vars(Next)

SpecFault == Init /\ [][NextFault]_vars

(***************************************************************************)
(* KeyboardInterrupt.  It is raised in the main thread.  Under asyncio.run *)
(* it cancels the main task and with it every route and probe task, and    *)
(* leaves run as KeyboardInterrupt.  In run_tests_sync it leaves the        *)
(* as_completed loop (its handler catches Exception only) and the `with`    *)
(* of the pool, whose exit waits for the submitted routes, queued ones      *)
(* included, to run to their end; nothing more is appended.  main catches   *)
(* it and returns.                                                          *)
(***************************************************************************)
ProbesInFlight == \E r \in Routes : InFlight(r) # {}

InterruptAsync ==
    /\ use_async /\ pc = "running" /\ LoopFree
    /\ ProbesInFlight
    /\ pc' = "interrupted"
    /\ rstate' = [r \in Routes |->
                    IF rstate[r] \in {"queued", "active"} THEN "cancelled"
                    ELSE rstate[r]]
    /\ pstate' = [r \in Routes |-> [i \in ProbeIds |->
                    IF rstate[r] = "active"
                       /\ pstate[r][i] \in {"waiting", "request", "sleep"}
                    THEN "cancelled" ELSE pstate[r][i]]]
    /\ UNCHANGED <<use_async, future, tid, result, results, issued,
                   progress, writers, report, probe, stats>>

InterruptSync ==
    /\ ~use_async /\ pc = "running" /\ ~Busy(MainCtx)
    /\ ProbesInFlight
    /\ pc' = "interrupting"
    /\ UNCHANGED <<use_async, rstate, pstate, future, tid, result, results,
                   issued, progress, writers, report, probe, stats>>

\* shutdown(wait=True) returns; the exception reaches main
ExitInterruptedSync ==
    /\ ~use_async /\ pc = "interrupting"
    /\ \A r \in Routes : rstate[r] \notin {"queued", "active"}
    /\ pc' = "interrupted"
    /\ UNCHANGED <<use_async, rstate, pstate, future, tid, result, results,
                   issued, progress, writers, report, probe, stats>>

NextInterrupt == Next \/ InterruptAsync \/ InterruptSync \/ ExitInterruptedSync

SpecInterrupt == Init /\ [][NextInterrupt]_vars

(***************************************************************************)
(* A second run on the same ConcurrentRouteTest object.  The state starts  *)
(* where a first run has ended: every probe of a route met the same        *)
(* response, the results are in self.results in configuration order.       *)
(* run_tests_async / run_tests_sync called again build their progress,     *)
(* gates, pools and tasks anew; self.results is assigned in __init__ only. *)
(***************************************************************************)
MaxRuns == 2

PriorResponse(r) ==
    CASE r = 1 -> OkFast
      [] r = 2 -> ConnFailed
      [] OTHER -> TimedOut

PriorFuture(async, r) ==
    IF async THEN test_single_request_async(PriorResponse(r), LoopThread)
    ELSE test_single_request_sync(PriorResponse(r), WorkerThread(r, 1))

RECURSIVE PriorResult(_, _, _)
PriorResult(async, r, k) ==
    IF k = 0 THEN NewResult(r)
    ELSE Record(PriorResult(async, r, k - 1), PriorFuture(async, r))

InitRerun ==
    /\ use_async \in BOOLEAN
    /\ pc = "finished"
    /\ rstate = [r \in Routes |-> "appended"]
    /\ pstate = [r \in Routes |-> [i \in ProbeIds |-> "recorded"]]
    /\ future = [r \in Routes |-> [i \in ProbeIds |-> PriorFuture(use_async, r)]]
    /\ tid = [r \in Routes |-> [i \in ProbeIds |->
                IF use_async THEN LoopThread ELSE WorkerThread(r, 1)]]
    /\ result = [r \in Routes |-> PriorResult(use_async, r, TestCount)]
    /\ results = [r \in Routes |-> PriorResult(use_async, r, TestCount)]
    /\ issued = [r \in Routes |-> TestCount]
    /\ progress = [r \in Routes |-> TestCount]
    /\ writers = [t \in {ResultsList} \cup Routes |-> {}]
    /\ report = NoReport
    /\ probe = NoProbe
    /\ stats = NoStats

\* run_tests_async / run_tests_sync is entered again
Rerun ==
    /\ pc = "finished"
    /\ Len(results) < MaxRuns * NumRoutes
    /\ pc' = "running"
    /\ rstate' = [r \in Routes |-> "queued"]
    /\ pstate' = [r \in Routes |-> [i \in ProbeIds |-> "new"]]
    /\ future' = [r \in Routes |-> [i \in ProbeIds |-> NoFuture]]
    /\ tid' = [r \in Routes |-> [i \in ProbeIds |-> LoopThread]]
    /\ result' = [r \in Routes |-> NewResult(r)]
    /\ issued' = [r \in Routes |-> 0]
    /\ progress' = [r \in Routes |-> 0]
    /\ UNCHANGED <<use_async, results, writers, report, probe, stats>>

NextRerun == Next \/ Rerun

SpecRerun == InitRerun /\ [][NextRerun]_vars

(***************************************************************************)
(* generate_report on its own: self.results is any list a run can leave    *)
(* behind, each RouteResult folded from test_count outcomes, the routes in *)
(* any order of completion.                                                *)
(***************************************************************************)
ReportOutcomes == <<TimedOut, OkFast, OkSlow>>

Profiles ==
    {p \in [1..TestCount -> 1..Len(ReportOutcomes)] :
        \A k \in 1..(TestCount - 1) : p[k] <= p[k + 1]}

RECURSIVE Recorded(_, _, _)
Recorded(r, p, k) ==
    IF k = 0 THEN NewResult(r)
    ELSE Record(Recorded(r, p, k - 1),
                test_single_request_sync(ReportOutcomes[p[k]], WorkerThread(r, 1)))

ResultLists ==
    UNION {{[k \in 1..n |-> Recorded(ord[k], prof[ord[k]], TestCount)] :
                ord \in {o \in [1..n -> Routes] :
                            \A a, b \in 1..n : a # b => o[a] # o[b]},
                prof \in [Routes -> Profiles]} : n \in 0..NumRoutes}

InitReport ==
    /\ use_async = FALSE
    /\ pc = "finished"
    /\ results \in ResultLists
    /\ rstate = [r \in Routes |-> "appended"]
    /\ pstate = [r \in Routes |-> [i \in ProbeIds |-> "done"]]
    /\ future = [r \in Routes |-> [i \in ProbeIds |-> NoFuture]]
    /\ tid = [r \in Routes |-> [i \in ProbeIds |-> LoopThread]]
    /\ result = [r \in Routes |-> NewResult(r)]
    /\ issued = [r \in Routes |-> TestCount]
    /\ progress = [r \in Routes |-> TestCount]
    /\ writers = [t \in {ResultsList} \cup Routes |-> {}]
    /\ report = NoReport
    /\ probe = NoProbe
    /\ stats = NoStats

NextReport == GenerateReport

SpecReport == InitReport /\ [][NextReport]_vars

(***************************************************************************)
(* calculate_stats on its own: one call on any short sequence of times.    *)
(***************************************************************************)
MaxTimes == 3
TimeValues == {100, 150, 200, 300}
TimeSeqs == UNION {[1..n -> TimeValues] : n \in 0..MaxTimes}

InitStats ==
    /\ use_async = FALSE
    /\ pc = "running"
    /\ rstate = [r \in Routes |-> "queued"]
    /\ pstate = [r \in Routes |-> [i \in ProbeIds |-> "new"]]
    /\ future = [r \in Routes |-> [i \in ProbeIds |-> NoFuture]]
    /\ tid = [r \in Routes |-> [i \in ProbeIds |-> LoopThread]]
    /\ result = [r \in Routes |-> NewResult(r)]
    /\ results = <<>>
    /\ issued = [r \in Routes |-> 0]
    /\ progress = [r \in Routes |-> 0]
    /\ writers = [t \in {ResultsList} \cup Routes |-> {}]
    /\ report = NoReport
    /\ probe = NoProbe
    /\ \E times \in TimeSeqs : stats = [NoStats EXCEPT !.times = times]

CalculateStats ==
    /\ stats.phase = "idle"
    /\ stats' = [stats EXCEPT !.phase = "done", !.out = calculate_stats(stats.times)]
    /\ UNCHANGED <<use_async, pc, rstate, pstate, future, tid, result, results,
                   issued, progress, writers, report, probe>>

NextStats == CalculateStats

SpecStats == InitStats /\ [][NextStats]_vars

(***************************************************************************)
(* One probe on its own: test_single_request_async or _sync against any    *)
(* response the request can meet.                                          *)
(***************************************************************************)
MaxChunks == 3
ChunkSizes == {0, 4}
Statuses == {200, 404, 500}
Excs == {"none", "timeout", "connection", "other"}

Bodies ==
    UNION {{[k \in 1..n |-> Chunk(sizes[k], k)] : sizes \in [1..n -> ChunkSizes]} :
              n \in 0..MaxChunks}

Responses ==
    {Resp(exc, 0, <<>>, 0) : exc \in Excs \ {"none"}}
        \cup {Resp(exc, status, body, Len(body) + 1) :
                exc \in Excs, status \in Statuses, body \in Bodies}

InitProbe ==
    /\ use_async \in BOOLEAN
    /\ pc = "running"
    /\ rstate = [r \in Routes |-> "queued"]
    /\ pstate = [r \in Routes |-> [i \in ProbeIds |-> "new"]]
    /\ future = [r \in Routes |-> [i \in ProbeIds |-> NoFuture]]
    /\ tid = [r \in Routes |-> [i \in ProbeIds |-> LoopThread]]
    /\ result = [r \in Routes |-> NewResult(r)]
    /\ results = <<>>
    /\ issued = [r \in Routes |-> 0]
    /\ progress = [r \in Routes |-> 0]
    /\ writers = [t \in {ResultsList} \cup Routes |-> {}]
    /\ report = NoReport
    /\ \E resp \in Responses : probe = [NoProbe EXCEPT !.resp = resp]
    /\ stats = NoStats

ProbeAsync ==
    /\ use_async
    /\ probe.phase = "idle"
    /\ probe' = [probe EXCEPT !.phase = "done",
                              !.out = test_single_request_async(probe.resp, LoopThread),
                              !.read = BodyRead(probe.resp)]
    /\ UNCHANGED <<use_async, pc, rstate, pstate, future, tid, result, results,
                   issued, progress, writers, report, stats>>

ProbeSync ==
    /\ ~use_async
    /\ probe.phase = "idle"
    /\ probe' = [probe EXCEPT !.phase = "done",
                              !.out = test_single_request_sync(probe.resp, WorkerThread(1, 1)),
                              !.read = BodyRead(probe.resp)]
    /\ UNCHANGED <<use_async, pc, rstate, pstate, future, tid, result, results,
                   issued, progress, writers, report, stats>>

NextProbe == ProbeAsync \/ ProbeSync

SpecProbe == InitProbe /\ [][NextProbe]_vars


(***************************************************************************)
(* Properties.                                                             *)
(***************************************************************************)
Returned(r) == rstate[r] \in {"returned", "appending", "appended"}
RunOver == pc \in {"finished", "reported"}
Succeeded(r) == {i \in ProbeIds : future[r][i].kind = "TestResult" /\ future[r][i].success}
Failed(r) == {i \in ProbeIds : future[r][i].kind = "TestResult" /\ ~future[r][i].success}

\* C1: every RouteResult a runner has returned, and every RouteResult in
\* self.results, has success_count + fail_count = test_count, under both
\* strategies and whatever the probes' outcomes were.
C1_CountInvariant ==
    /\ \A r \in Routes :
         Returned(r) => result[r].success_count + result[r].fail_count = TestCount
    /\ \A k \in 1..Len(results) :
         results[k].success_count + results[k].fail_count = TestCount

\* a finished run with a route of mixed outcomes and a route whose probes all failed
C1_Witness ==
    /\ RunOver
    /\ \E k \in 1..Len(results) :
         results[k].success_count > 0 /\ results[k].fail_count > 0
    /\ \E k \in 1..Len(results) : results[k].fail_count = TestCount

\* C2: at most max_concurrent_per_route probes of a route are in flight
\* (admitted and not yet released, the delay included) in every state.
C2_PerRouteCap ==
    \A r \in Routes : Cardinality(InFlight(r)) <= MaxConcurrentPerRoute

\* the gate of a route is full while a probe of it waits, thread-based
C2_Witness ==
    \E r \in Routes :
        /\ ~use_async
        /\ Cardinality(InFlight(r)) = MaxConcurrentPerRoute
        /\ \E i \in ProbeIds : pstate[r][i] = "waiting"

\* C3: at most max_concurrent_routes runners are active in every state, and a
\* route leaves the queue only when fewer than that many are active.
C3_RouteCap ==
    /\ [](Cardinality(ActiveRoutes) <= MaxConcurrentRoutes)
    /\ [][\A r \in Routes :
            (rstate[r] = "queued" /\ rstate'[r] # "queued")
               => Cardinality(ActiveRoutes) < MaxConcurrentRoutes]_vars

\* the cross-route gate is full while a route waits, cooperative
C3_Witness ==
    /\ use_async
    /\ Cardinality(ActiveRoutes) = MaxConcurrentRoutes
    /\ \E r \in Routes : rstate[r] = "queued"

ProbesFinished(r) == \A i \in ProbeIds : pstate[r][i] = "recorded"
HandedOn(r) == rstate[r] \in {"appending", "appended"}
InResults(r) == \E k \in 1..Len(results) : results[k].route_name = r

\* C5 (as claimed): once the run has ended, every route whose runner raised
\* has a RouteResult in self.results with fail_count = test_count and one
\* error message, and every other route has its complete RouteResult there.
C5_FaultRecorded ==
    (pc \in {"finished", "reported", "crashed"}) =>
        \A r \in Routes :
            IF rstate[r] \in {"faulted", "excepted"}
            THEN \E k \in 1..Len(results) :
                    /\ results[k].route_name = r
                    /\ results[k].fail_count = TestCount
                    /\ Len(results[k].errors) = 1
            ELSE \E k \in 1..Len(results) :
                    /\ results[k].route_name = r
                    /\ results[k].success_count + results[k].fail_count = TestCount

\* C6 (as claimed): after run_tests_* returned, self.results lists the routes
\* in configuration order, whatever order the runners finished in.
C6_ConfigOrder ==
    RunOver =>
        \A j, k \in 1..Len(results) :
            j < k => results[j].route_name < results[k].route_name

RECURSIVE TimesFrom(_, _, _)
TimesFrom(r, i, field) ==
    IF i > TestCount THEN <<>>
    ELSE IF i \in Succeeded(r)
         THEN <<IF field = "total" THEN future[r][i].total_time
                ELSE future[r][i].first_byte_time>> \o TimesFrom(r, i + 1, field)
         ELSE TimesFrom(r, i + 1, field)

\* C8: under either strategy the RouteResult a runner returns has the counts
\* and the latency statistics that the probes' outcomes alone determine (the
\* number of successes, the number of failures, the statistics of the
\* successful probes' times), whatever order the probes completed in: so the
\* two strategies agree on them for the same outcomes.
C8_StrategiesAgree ==
    \A r \in Routes :
        Returned(r) =>
            /\ result[r].success_count = Cardinality(Succeeded(r))
            /\ result[r].fail_count = TestCount - Cardinality(Succeeded(r))
            /\ calculate_stats(result[r].total_times)
                 = calculate_stats(TimesFrom(r, 1, "total"))
            /\ calculate_stats(result[r].first_byte_times)
                 = calculate_stats(TimesFrom(r, 1, "first_byte"))

\* thread-based: a returned route recorded two different latencies in the
\* reverse of task order
C8_Witness ==
    \E r \in Routes :
        /\ ~use_async /\ Returned(r)
        /\ Len(result[r].total_times) >= 2
        /\ result[r].total_times # TimesFrom(r, 1, "total")

\* C9: a failing probe is one failure, with its message, in its own route's
\* RouteResult; the step in which a probe fails changes no other probe, no
\* route and not the run; and a run that is over has issued and recorded
\* every probe of every route.
C9_FailureContained ==
    /\ [](\A r \in Routes :
            Returned(r) =>
                /\ result[r].fail_count = Cardinality(Failed(r))
                /\ Len(result[r].errors) = Cardinality(Failed(r))
                /\ \A i \in Failed(r) :
                     \E k \in 1..Len(result[r].errors) :
                         result[r].errors[k] = future[r][i].error)
    /\ [](RunOver =>
            \A r \in Routes :
                issued[r] = TestCount /\ ProbesFinished(r) /\ InResults(r))
    /\ [][\A r \in Routes, i \in ProbeIds :
            (pstate[r][i] = "request" /\ pstate'[r][i] # "request"
               /\ ~future'[r][i].success)
            => /\ pc' = pc /\ rstate' = rstate
               /\ pstate'[r][i] = "sleep"
               /\ \A q \in Routes, j \in ProbeIds :
                    <<q, j>> # <<r, i>> =>
                        pstate'[q][j] = pstate[q][j] /\ future'[q][j] = future[q][j]]_vars

\* a finished run in which the first probe of a route failed and its second succeeded
C9_Witness ==
    /\ RunOver
    /\ \E r \in Routes : 1 \in Failed(r) /\ TestCount \in Succeeded(r)

\* C10: no RouteResult and not self.results is ever being updated by two
\* contexts at once, and each changes only while exactly one context is
\* inside its update.
C10_SerializedUpdates ==
    /\ [](\A t \in DOMAIN writers : Cardinality(writers[t]) <= 1)
    /\ [][\A r \in Routes :
            result'[r] # result[r] => Cardinality(writers[r]) = 1]_vars
    /\ [][results' # results => Cardinality(writers[ResultsList]) = 1]_vars

\* thread-based: the main thread appends while a runner updates its result
C10_Witness ==
    /\ ~use_async
    /\ writers[ResultsList] # {}
    /\ \E r \in Routes : writers[r] # {}

\* C11: generate_report never recommends a route whose success_count is 0,
\* also when that route is the only one in the list: then no route is
\* recommended.
C11_NoFailedBest ==
    report.best # NoRoute =>
        \E k \in 1..Len(report.order) :
            /\ report.order[k].route_name = report.best
            /\ report.order[k].success_count > 0

\* the report of a run whose only route failed every probe recommends nothing
C11_Witness ==
    /\ report.status = "table"
    /\ Len(report.order) = 1
    /\ report.order[1].success_count = 0
    /\ report.best = NoRoute

\* C12: the recommended route is, among the routes with a success, the first
\* in display order whose score 0.7 * success_count / test_count +
\* 0.3 / (mean first byte in seconds + 0.1) no other such route exceeds;
\* without a successful route nothing is recommended.
C12_BestScore ==
    report.status = "table" =>
        LET ord == report.order
            E == {k \in 1..Len(ord) : ord[k].success_count > 0}
        IN  IF E = {} THEN report.best = NoRoute
            ELSE \E k \in E :
                    /\ ord[k].route_name = report.best
                    /\ \A j \in E :
                         /\ ~FracLess(Score(ord[k]), Score(ord[j]))
                         /\ j < k => FracLess(Score(ord[j]), Score(ord[k]))

\* two routes tie on the highest score and the one displayed first is kept
C12_Witness ==
    /\ report.status = "table"
    /\ \E j, k \in 1..Len(report.order) :
         /\ j < k
         /\ report.order[j].success_count > 0
         /\ report.order[k].success_count > 0
         /\ ~FracLess(Score(report.order[j]), Score(report.order[k]))
         /\ ~FracLess(Score(report.order[k]), Score(report.order[j]))
         /\ report.best = report.order[j].route_name

\* C13: the routes are displayed by success_count, highest first, and among
\* routes of equal success_count by mean first-byte time, lowest first; the
\* display is a rearrangement of self.results.
C13_DisplayOrder ==
    report.status = "table" =>
        LET ord == report.order
        IN  /\ Len(ord) = Len(results)
            /\ {ord[k] : k \in 1..Len(ord)} = {results[k] : k \in 1..Len(results)}
            /\ \A k \in 1..(Len(ord) - 1) :
                 /\ ord[k].success_count >= ord[k + 1].success_count
                 /\ (/\ ord[k].success_count = ord[k + 1].success_count
                     /\ ord[k].first_byte_times # <<>>
                     /\ ord[k + 1].first_byte_times # <<>>)
                    => Sum(ord[k].first_byte_times) * Len(ord[k + 1].first_byte_times)
                         <= Sum(ord[k + 1].first_byte_times) * Len(ord[k].first_byte_times)

\* a route with more successes and a slower first byte is displayed before a
\* route with fewer successes and a faster first byte
C13_Witness ==
    /\ report.status = "table"
    /\ \E k \in 1..(Len(report.order) - 1) :
         LET b == report.order[k]
             a == report.order[k + 1]
         IN  /\ b.success_count > a.success_count
             /\ a.success_count > 0
             /\ Sum(a.first_byte_times) * Len(b.first_byte_times)
                  < Sum(b.first_byte_times) * Len(a.first_byte_times)

\* the k-th smallest element of a non-empty sequence, by counting
KthSmallest(times, k) ==
    CHOOSE x \in {times[i] : i \in 1..Len(times)} :
        /\ Cardinality({i \in 1..Len(times) : times[i] < x}) < k
        /\ k <= Cardinality({i \in 1..Len(times) : times[i] <= x})

\* C18: calculate_stats returns 0 for avg, min, max and median of an empty
\* sequence and the mean, the smallest element, the largest element and the
\* median (the middle element, or the mean of the two middle ones) of a
\* non-empty one; for [100, 200, 300] that is 200, 100, 300, 200.
C18_Stats ==
    stats.phase = "done" =>
        LET t == stats.times
            o == stats.out
            n == Len(t)
            elems == {t[i] : i \in 1..n}
        IN  /\ t = <<>> =>
                o = [avg |-> <<0, 1>>, min |-> 0, max |-> 0, median |-> <<0, 1>>]
            /\ t # <<>> =>
                /\ o.avg[1] * n = Sum(t) * o.avg[2]
                /\ o.min \in elems /\ \A x \in elems : o.min <= x
                /\ o.max \in elems /\ \A x \in elems : x <= o.max
                /\ IF n % 2 = 1
                   THEN o.median[1] = KthSmallest(t, (n + 1) \div 2) * o.median[2]
                   ELSE 2 * o.median[1] =
                          (KthSmallest(t, n \div 2) + KthSmallest(t, n \div 2 + 1))
                            * o.median[2]
            /\ t = <<100, 200, 300>> =>
                o = [avg |-> <<200, 1>>, min |-> 100, max |-> 300, median |-> <<200, 1>>]

\* the statistics of [100, 200, 300] have been computed
C18_Witness ==
    /\ stats.phase = "done"
    /\ stats.times = <<100, 200, 300>>
    /\ stats.out.avg = <<200, 1>>
    /\ stats.out.median = <<200, 1>>

\* C16: a probe that meets a response whose status is not 200 returns a failed
\* TestResult whose error names the status and whose total_time and
\* first_byte_time are 0, and takes no chunk from the body, whatever the body
\* holds; so the async and the sync prober.
C16_BadStatus ==
    (probe.phase = "done" /\ probe.resp.status \notin {0, 200}) =>
        /\ probe.out.kind = "TestResult"
        /\ ~probe.out.success
        /\ probe.out.error = HttpError(probe.resp.status)
        /\ probe.out.total_time = 0
        /\ probe.out.first_byte_time = 0
        /\ probe.read = 0

\* the sync prober met a 500 whose body holds data and returned "HTTP 500"
C16_Witness ==
    /\ ~use_async
    /\ probe.phase = "done"
    /\ probe.resp.status = 500
    /\ \E k \in 1..Len(probe.resp.chunks) : probe.resp.chunks[k].size > 0
    /\ probe.out.error = "HTTP 500"
    /\ probe.read = 0

\* C17: a probe that meets status 200 and a body that ends without a non-empty
\* chunk (only empty chunks, or none) returns a failed TestResult with the
\* error "No response data"; a probe succeeds only when the status was 200, a
\* non-empty chunk arrived and the body was read to its end.
C17_NoData ==
    probe.phase = "done" =>
        LET resp == probe.resp
            data == {k \in 1..Len(resp.chunks) : resp.chunks[k].size > 0}
        IN  /\ (resp.status = 200 /\ resp.exc = "none" /\ data = {}) =>
                /\ ~probe.out.success
                /\ probe.out.error = "No response data"
                /\ probe.out.total_time = 0
                /\ probe.out.first_byte_time = 0
            /\ probe.out.success =>
                /\ resp.status = 200
                /\ resp.exc = "none"
                /\ data # {}
                /\ probe.read = Len(resp.chunks)
                /\ \E k \in data :
                     /\ \A j \in data : k <= j
                     /\ probe.out.first_byte_time = resp.chunks[k].at

\* the async prober met a 200 whose body was two empty chunks
C17_Witness ==
    /\ use_async
    /\ probe.phase = "done"
    /\ probe.resp.status = 200
    /\ probe.resp.exc = "none"
    /\ Len(probe.resp.chunks) = 2
    /\ \A k \in 1..Len(probe.resp.chunks) : probe.resp.chunks[k].size = 0
    /\ probe.out.error = "No response data"

Finished(r) == {i \in ProbeIds : pstate[r][i] \in {"done", "recording", "recorded"}}
Counted(r) == result[r].success_count + result[r].fail_count

C20_OnePerRoute ==
    RunOver =>
        /\ Len(results) = NumRoutes
        /\ \A r \in Routes :
             Cardinality({k \in 1..Len(results) : results[k].route_name = r}) = 1

Interrupted == pc \in {"interrupting", "interrupted"}

\* what the probes, the routes and the main thread have still before them
ProbesIn(st) == Cardinality({x \in Routes \X ProbeIds : pstate[x[1]][x[2]] = st})
RoutesIn(st) == Cardinality({r \in Routes : rstate[r] = st})
WorkLeft ==
    6 * ProbesIn("new") + 5 * ProbesIn("waiting") + 4 * ProbesIn("request")
      + 3 * ProbesIn("sleep") + 2 * ProbesIn("done") + ProbesIn("recording")
      + 2 * RoutesIn("queued") + RoutesIn("active")
      + (IF pc = "interrupted" THEN 0 ELSE 1)

\* C14: once a KeyboardInterrupt has hit a run with probes in flight, under
\* either strategy, generate_report is not executed (the run stays
\* interrupted, no report exists, self.results is not touched again) and the
\* program terminates: until it has, a step is always possible, and every
\* step brings the end nearer.
C14_InterruptEndsRun ==
    /\ [](Interrupted => report = NoReport)
    /\ [](pc = "interrupting" => ENABLED NextInterrupt)
    /\ [][Interrupted =>
            (/\ pc' \in {"interrupting", "interrupted"}
             /\ report' = report
             /\ results' = results
             /\ WorkLeft' < WorkLeft)]_vars

\* the thread-based run was interrupted after one route's result was appended;
\* the pools ran to their end, another route returned its result to nobody
C14_Witness ==
    /\ ~use_async
    /\ pc = "interrupted"
    /\ Len(results) = 1
    /\ \E r \in Routes : rstate[r] = "returned" /\ ~InResults(r)
    /\ report = NoReport

LengthsAgree(res) ==
    /\ res.success_count = Len(res.total_times)
    /\ res.success_count = Len(res.first_byte_times)
    /\ res.fail_count = Len(res.errors)
    /\ (res.first_byte_times = <<>>) <=> (res.success_count = 0)

\* C25: every RouteResult a runner has returned, and every one in
\* self.results, has success_count = len(total_times) = len(first_byte_times)
\* and fail_count = len(errors); so its first_byte_times is empty exactly when
\* its success_count is 0.
C25_LengthsMatchCounts ==
    /\ \A r \in Routes : Returned(r) => LengthsAgree(result[r])
    /\ \A k \in 1..Len(results) : LengthsAgree(results[k])

\* a returned RouteResult with one success and one failure, and one in
\* self.results without any success
C25_Witness ==
    /\ \E r \in Routes :
         /\ Returned(r)
         /\ Len(result[r].first_byte_times) = 1
         /\ Len(result[r].errors) = 1
    /\ \E k \in 1..Len(results) :
         results[k].first_byte_times = <<>> /\ Len(results[k].errors) = TestCount

TotalInFlight ==
    Cardinality({x \in Routes \X ProbeIds : pstate[x[1]][x[2]] \in {"request", "sleep"}})

\* C23: in every state the probes in flight (admitted and not yet released),
\* all routes together, are at most max_concurrent_routes *
\* max_concurrent_per_route, under both strategies.
C23_TotalCap ==
    TotalInFlight <= MaxConcurrentRoutes * MaxConcurrentPerRoute

\* both gates are full under the cooperative strategy: as many probes in
\* flight as the two widths allow, a route and a probe waiting
C23_Witness ==
    /\ use_async
    /\ TotalInFlight = MaxConcurrentRoutes * MaxConcurrentPerRoute
    /\ \E r \in Routes : rstate[r] = "queued"
    /\ \E r \in Routes : \E i \in ProbeIds : pstate[r][i] = "waiting"

\* the probes of a route that are past their progress.advance: behind the
\* request under the cooperative strategy, behind the delay under the
\* thread-based one
Advanced(r) ==
    {i \in ProbeIds :
        pstate[r][i] \in (IF use_async THEN {"sleep", "done", "recording", "recorded"}
                          ELSE {"done", "recording", "recorded"})}
Completed(r) == {i \in ProbeIds : future[r][i].kind = "TestResult"}

ObservedConcurrency(res) == Cardinality(res.concurrent_threads)

RunStarts == pc = "running" /\ \A r \in Routes : rstate[r] = "queued"

\* C21 (as claimed): a run entered again on the same object starts with an
\* empty self.results, and the list it ends with holds no RouteResult of the
\* earlier run: no route is in it twice.
C21_FreshRun ==
    /\ RunStarts => results = <<>>
    /\ RunOver =>
         \A j, k \in 1..Len(results) :
             j # k => results[j].route_name # results[k].route_name

\* what is still to do in a run: the steps every probe, every route and the
\* run itself have before them
RunWorkLeft ==
    6 * ProbesIn("new") + 5 * ProbesIn("waiting") + 4 * ProbesIn("request")
      + 3 * ProbesIn("sleep") + 2 * ProbesIn("done") + ProbesIn("recording")
      + 4 * RoutesIn("queued") + 3 * RoutesIn("active") + 2 * RoutesIn("returned")
      + RoutesIn("appending")
      + (CASE pc = "running" -> 2 [] pc = "finished" -> 1 [] OTHER -> 0)

====
